---- MODULE Spec2Model ----
(***************************************************************************)
(* Model of hub.api.dataset.Dataset: the create/open lifecycle of a        *)
(* dataset at one url, the selector routing of __getitem__, the grouped    *)
(* dictionary of _get_dictionary, commit() and the with-block protocol.    *)
(*                                                                         *)
(* Strings that the code slices, splits or prefixes (field paths, selector *)
(* path terms) are sequences of one-character strings, so that startswith, *)
(* key[len(subpath):] and split("/") are computed as Python computes them. *)
(***************************************************************************)
EXTENDS Integers, Sequences, FiniteSets, TLC

\* ------------------------------------------------------------------ bounds
\* Largest sample count N of a created dataset (shape = (N,)).
MaxSamples == 2
\* Number of Dataset constructions on the url in one behaviour.
MaxCtor == 2

\* ------------------------------------------------------- strings and paths
SEP == "/"

\* str.startswith
StartsWith(s, p) ==
    /\ Len(p) <= Len(s)
    /\ SubSeq(s, 1, Len(p)) = p

\* str.endswith("/")
EndsWithSep(s) == Len(s) > 0 /\ s[Len(s)] = SEP

\* s[n:]
Drop(s, n) == SubSeq(s, n + 1, Len(s))

RECURSIVE SplitFrom(_, _)
\* s.split("/") with cur the segment read so far
SplitFrom(s, cur) ==
    IF s = <<>> THEN <<cur>>
    ELSE IF Head(s) = SEP THEN <<cur>> \o SplitFrom(Tail(s), <<>>)
    ELSE SplitFrom(Tail(s), Append(cur, Head(s)))

Split(s) == SplitFrom(s, <<>>)

\* ------------------------------------------------------------------ schema
\* hub.features nodes: Primitive, Tensor(shape) and FeatureDict(dict_).
Primitive == [kind |-> "Primitive", shape |-> <<>>, dict_ |-> <<>>]
Tensor(sh) == [kind |-> "Tensor", shape |-> sh, dict_ |-> <<>>]
FeatureDict(d) == [kind |-> "FeatureDict", shape |-> <<>>, dict_ |-> d]

\* {"a": prim, "g": {"a": prim, "b": Tensor((2,))}}
SchemaNested ==
    FeatureDict(<< << <<"a">>, Primitive >>,
                   << <<"g">>, FeatureDict(<< << <<"a">>, Primitive >>,
                                             << <<"b">>, Tensor(<<2>>) >> >>) >> >>)

\* {"ab": prim, "a": {"b": Tensor((2,))}}: "/a" is a partial segment of "/ab"
SchemaPartial ==
    FeatureDict(<< << <<"a", "b">>, Primitive >>,
                   << <<"a">>, FeatureDict(<< << <<"b">>, Tensor(<<2>>) >> >>) >> >>)

\* {"g": {"h": {"a": prim, "b": prim}, "c": prim}}: two group levels
SchemaDeep ==
    FeatureDict(
        << << <<"g">>,
              FeatureDict(<< << <<"h">>,
                                FeatureDict(<< << <<"a">>, Primitive >>,
                                               << <<"b">>, Primitive >> >>) >>,
                             << <<"c">>, Primitive >> >>) >> >>)

\* {}: a schema with no field
NoSchema == FeatureDict(<<>>)

Schemas == {SchemaNested, SchemaPartial, NoSchema}
\* The schemas with groups, for the grouped reads.
GroupSchemas == {SchemaNested, SchemaDeep}

\* FlatTensor(path, shape, max_shape)
FlatTensor(p, sh, mx) == [path |-> p, shape |-> sh, max_shape |-> mx]

RECURSIVE Flatten(_)
\* FeatureConnector._flatten: depth-first, declaration order; a leaf yields
\* the empty path, a FeatureDict prefixes "/" + key to each child item.
Flatten(node) ==
    IF node.kind = "FeatureDict"
    THEN LET RECURSIVE Items(_)
             Items(d) ==
                 IF d = <<>> THEN <<>>
                 ELSE LET key == Head(d)[1]
                          sub == Flatten(Head(d)[2])
                      IN  [i \in 1..Len(sub) |->
                              FlatTensor(<<SEP>> \o key \o sub[i].path,
                                         sub[i].shape, sub[i].max_shape)]
                          \o Items(Tail(d))
         IN  Items(node.dict_)
    ELSE <<FlatTensor(<<>>, node.shape, node.shape)>>

RECURSIVE Serialize(_)
\* hub.features.serialize.serialize: a tagged structured value per node.
\* The encoding stands in for the library's, which dataset.py only calls;
\* that deserialize gives back the tree serialize was given is taken from
\* this stand-in, not from dataset.py.
Serialize(node) ==
    [type |-> node.kind,
     shape |-> node.shape,
     items |-> [i \in 1..Len(node.dict_) |->
                   <<node.dict_[i][1], Serialize(node.dict_[i][2])>>]]

RECURSIVE Deserialize(_)
\* hub.features.deserialize.deserialize
Deserialize(v) ==
    [kind |-> v.type,
     shape |-> v.shape,
     dict_ |-> [i \in 1..Len(v.items) |->
                   <<v.items[i][1], Deserialize(v.items[i][2])>>]]

\* ----------------------------------------------------------------- storage
\* The tree at the url: the directory, the meta.json record (a sequence of
\* zero or one record), a file that belongs to no dataset, and the field
\* namespaces (<path>/--dynamic--) created under the directory.
NoDir == [dir |-> FALSE, meta |-> <<>>, stray |-> FALSE, fields |-> {}]
EmptyDir == [dir |-> TRUE, meta |-> <<>>, stray |-> FALSE, fields |-> {}]
StrayDir == [dir |-> TRUE, meta |-> <<>>, stray |-> TRUE, fields |-> {}]

\* A mode is a string, held as the sequence of its characters. The three
\* documented modes, and "rw", which holds both tested letters.
AccessModes == {<<"r">>, <<"w">>, <<"a">>}
Modes == AccessModes \cup {<<"r", "w">>}

VARIABLES
    fs,            \* the storage tree at the url
    pre_fs,        \* the storage tree when the current constructor was entered
    pc,            \* position of the caller / constructor
    mode,          \* self.mode
    local_mode,    \* the constructor's local variable `mode`
    safe_mode,     \* argument safe_mode
    arg_shape,     \* argument shape
    arg_schema,    \* argument schema
    needcreate,    \* result of _check_and_prepare_dir
    shape,         \* self.shape
    schema,        \* self.schema
    flat_tensors,  \* self._flat_tensors
    tensors,       \* the handles yielded to dict() so far, in insertion
                   \* order: self._tensors once dict() has returned
    error,         \* the exception that reached the caller, or "none"
    pending,       \* the exception being propagated inside the constructor
    meta_writes,   \* writes of meta.json by the current constructor
    nctor,         \* constructions started so far
    result,        \* the value returned by the last call on the dataset
    commit_log,    \* paths of the handles committed by the last commit() call
    in_with,       \* position relative to a with-block: no, body, exit, left
    body_err,      \* the exception raised by the with-block's body, or "none"
    commit_calls   \* commit() calls made by __exit__ for the current with-block

vars == <<fs, pre_fs, pc, mode, local_mode, safe_mode, arg_shape, arg_schema,
          needcreate, shape, schema, flat_tensors, tensors, error, pending,
          meta_writes, nctor, result, commit_log, in_with, body_err,
          commit_calls>>

argVars == <<mode, safe_mode, arg_shape, arg_schema>>
objVars == <<shape, schema, flat_tensors, tensors>>
useVars == <<result, commit_log, in_with, body_err, commit_calls>>
ctorVars == <<pre_fs, local_mode, needcreate, pending, meta_writes, nctor>>

\* A call that returns None.
NoResult == [kind |-> "None"]

\* ------------------------------------------------------ filesystem helpers
\* fs.exists(posixpath.join(path, "meta.json"))
ExistMeta(f) == f.meta # <<>>

\* the top-level entries of the directory that hold field namespaces
TopEntries(f) == {Split(p)[2] : p \in f.fields}

\* get_file_count(fs, path)
get_file_count(f) ==
    (IF f.meta # <<>> THEN 1 ELSE 0) + (IF f.stray THEN 1 ELSE 0)
        + Cardinality(TopEntries(f))

\* fs.rm(path, recursive=True)
RmTree(f) == NoDir

\* fs.makedirs(path)
MakeDirs(f) == [f EXCEPT !.dir = TRUE]

\* "w" in mode, "r" in mode
HasW(m) == \E i \in DOMAIN m : m[i] = "w"
HasR(m) == \E i \in DOMAIN m : m[i] = "r"

\* ------------------------------------------------------------ construction
Init ==
    /\ fs \in {NoDir, EmptyDir, StrayDir}
    /\ pre_fs = fs
    /\ pc = "idle"
    /\ mode = <<"a">>
    /\ local_mode = <<"a">>
    /\ safe_mode = FALSE
    /\ arg_shape = <<1>>
    /\ arg_schema = NoSchema
    /\ needcreate = FALSE
    /\ shape = <<>>
    /\ schema = NoSchema
    /\ flat_tensors = <<>>
    /\ tensors = <<>>
    /\ error = "none"
    /\ pending = "none"
    /\ meta_writes = 0
    /\ nctor = 0
    /\ result = NoResult
    /\ commit_log = <<>>
    /\ in_with = "no"
    /\ body_err = "none"
    /\ commit_calls = 0

\* Dataset.__init__, lines 85-96: the arguments are stored.
Construct(m, sm, n, sc) ==
    /\ pc \in {"idle", "ready", "failed"}
    /\ nctor < MaxCtor
    /\ nctor' = nctor + 1
    /\ mode' = m
    /\ local_mode' = m
    /\ safe_mode' = sm
    /\ arg_shape' = <<n>>
    /\ arg_schema' = sc
    /\ pre_fs' = fs
    /\ needcreate' = FALSE
    /\ shape' = <<>>
    /\ schema' = NoSchema
    /\ flat_tensors' = <<>>
    /\ tensors' = <<>>
    /\ error' = "none"
    /\ pending' = "none"
    /\ meta_writes' = 0
    /\ pc' = "check"
    /\ result' = NoResult
    /\ commit_log' = <<>>
    /\ in_with' = "no"
    /\ body_err' = "none"
    /\ commit_calls' = 0
    /\ UNCHANGED fs

\* _check_and_prepare_dir with lines 147-150 losing the mode test: a nonempty
\* non-dataset directory always raises the overwrite exception.
CheckResultNoAppendCase(f, m) ==
    IF ExistMeta(f)
    THEN IF HasW(m)
         THEN [fs |-> MakeDirs(RmTree(f)), needcreate |-> TRUE, exc |-> "none"]
         ELSE [fs |-> f, needcreate |-> FALSE, exc |-> "none"]
    ELSE IF HasR(m)
         THEN [fs |-> f, needcreate |-> FALSE,
               exc |-> "HubDatasetNotFoundException"]
         ELSE IF ~f.dir
              THEN [fs |-> MakeDirs(f), needcreate |-> TRUE, exc |-> "none"]
              ELSE IF get_file_count(f) > 0
                   THEN [fs |-> f, needcreate |-> FALSE,
                         exc |-> "NotHubDatasetToOverwriteException"]
                   ELSE [fs |-> f, needcreate |-> TRUE, exc |-> "none"]

\* _check_and_prepare_dir creating the missing directory (lines 143-145)
\* before the mode test of lines 141-142.
CheckResultDirFirst(f, m) ==
    IF ExistMeta(f)
    THEN IF HasW(m)
         THEN [fs |-> MakeDirs(RmTree(f)), needcreate |-> TRUE, exc |-> "none"]
         ELSE [fs |-> f, needcreate |-> FALSE, exc |-> "none"]
    ELSE IF HasR(m)
         THEN [fs |-> MakeDirs(f), needcreate |-> FALSE,
               exc |-> "HubDatasetNotFoundException"]
         ELSE IF ~f.dir
              THEN [fs |-> MakeDirs(f), needcreate |-> TRUE, exc |-> "none"]
              ELSE IF get_file_count(f) > 0
                   THEN IF HasW(m)
                        THEN [fs |-> f, needcreate |-> FALSE,
                              exc |-> "NotHubDatasetToOverwriteException"]
                        ELSE [fs |-> f, needcreate |-> FALSE,
                              exc |-> "NotHubDatasetToAppendException"]
                   ELSE [fs |-> f, needcreate |-> TRUE, exc |-> "none"]

\* The outcome of _check_and_prepare_dir on storage f in mode m:
\* the new storage, the returned needcreate and the exception raised.
CheckResult(f, m) ==
    IF ExistMeta(f)
    THEN IF HasW(m)
         THEN [fs |-> MakeDirs(RmTree(f)), needcreate |-> TRUE, exc |-> "none"]
         ELSE [fs |-> f, needcreate |-> FALSE, exc |-> "none"]
    ELSE IF HasR(m)
         THEN [fs |-> f, needcreate |-> FALSE,
               exc |-> "HubDatasetNotFoundException"]
         ELSE IF ~f.dir
              THEN [fs |-> MakeDirs(f), needcreate |-> TRUE, exc |-> "none"]
              ELSE IF get_file_count(f) > 0
                   THEN IF HasW(m)
                        THEN [fs |-> f, needcreate |-> FALSE,
                              exc |-> "NotHubDatasetToOverwriteException"]
                        ELSE [fs |-> f, needcreate |-> FALSE,
                              exc |-> "NotHubDatasetToAppendException"]
                   ELSE [fs |-> f, needcreate |-> TRUE, exc |-> "none"]

\* Dataset._check_and_prepare_dir as called at line 98.
CheckAndPrepareDir ==
    /\ pc = "check"
    /\ LET r == CheckResult(fs, mode)
       IN  /\ fs' = r.fs
           /\ needcreate' = r.needcreate
           /\ IF r.exc = "none"
              THEN /\ pc' = "safe" /\ error' = error
              ELSE /\ pc' = "failed" /\ error' = r.exc
    /\ UNCHANGED <<pre_fs, argVars, local_mode, objVars, pending, meta_writes,
                   nctor, useVars>>

\* Dataset.__init__, lines 99-103: safe mode rebinds the local `mode`.
SafeModeLocal(sm, nc, m) == IF sm /\ ~nc THEN <<"r">> ELSE m

SafeMode ==
    /\ pc = "safe"
    /\ local_mode' = SafeModeLocal(safe_mode, needcreate, local_mode)
    /\ pc' = IF needcreate THEN "featurify" ELSE "read_meta"
    /\ UNCHANGED <<fs, pre_fs, argVars, needcreate, objVars, error, pending,
                   meta_writes, nctor, useVars>>

\* DynamicTensor(fs_map, mode, shape, max_shape, ...): the handle records
\* the arguments it was constructed with; has_max tells whether max_shape
\* (with dtype and chunks) was passed; flushed tells whether commit() has been
\* called on it and returned since it was built or last written to;
\* written is the range its __setitem__ was last called with (<<>>: never).
DynamicTensor(p, m, sh, hasmx, mx) ==
    [path |-> p, mode |-> m, shape |-> sh, has_max |-> hasmx,
     max_shape |-> mx, flushed |-> FALSE, written |-> <<>>]

\* ---- Open branch, lines 105-110
\* lines 106-108: json.loads(fs_map["meta.json"]) and deserialize
OpenReadMeta ==
    /\ pc = "read_meta"
    /\ LET meta == fs.meta[1]
       IN  /\ shape' = meta.shape
           /\ schema' = Deserialize(meta.schema)
    /\ pc' = "open_flatten"
    /\ UNCHANGED <<fs, pre_fs, argVars, local_mode, needcreate, flat_tensors,
                   tensors, error, pending, meta_writes, nctor, useVars>>

\* lines 106-108 raising (unreadable or malformed record): in line 106 or
\* 107, before self.shape is assigned, or in line 108, after it.
OpenReadMetaFail ==
    /\ pc = "read_meta"
    /\ \E assigned \in BOOLEAN :
           shape' = IF assigned THEN fs.meta[1].shape ELSE shape
    /\ error' = "MetaReadError"
    /\ pc' = "failed"
    /\ UNCHANGED <<fs, pre_fs, argVars, local_mode, needcreate, schema,
                   flat_tensors, tensors, pending, meta_writes, nctor,
                   useVars>>

\* line 109
OpenFlatten ==
    /\ pc = "open_flatten"
    /\ flat_tensors' = Flatten(schema)
    /\ pc' = IF Flatten(schema) = <<>> THEN "ready" ELSE "open_tensors"
    /\ UNCHANGED <<fs, pre_fs, argVars, local_mode, needcreate, shape, schema,
                   tensors, error, pending, meta_writes, nctor, useVars>>

\* line 109 raising: schema._flatten() on the deserialized schema
OpenFlattenFail ==
    /\ pc = "open_flatten"
    /\ error' = "FlattenError"
    /\ pc' = "failed"
    /\ UNCHANGED <<fs, pre_fs, argVars, local_mode, needcreate, objVars,
                   pending, meta_writes, nctor, useVars>>

\* line 178 passing self.shape alone
OpenHandleSampleShapeOnly(t, selfmode, selfshape) ==
    DynamicTensor(t.path, selfmode, selfshape, FALSE, <<>>)

\* The handle _open_storage_tensors yields for descriptor t (lines 173-179).
OpenHandle(t, selfmode, selfshape) ==
    DynamicTensor(t.path, selfmode, selfshape \o t.shape, FALSE, <<>>)

\* One iteration of _open_storage_tensors consumed by dict(), line 110.
OpenStorageTensor ==
    /\ pc = "open_tensors"
    /\ Len(tensors) < Len(flat_tensors)
    /\ LET t == flat_tensors[Len(tensors) + 1]
       IN  tensors' = Append(tensors, OpenHandle(t, mode, shape))
    /\ pc' = IF Len(tensors) + 1 = Len(flat_tensors)
             THEN "ready" ELSE "open_tensors"
    /\ UNCHANGED <<fs, pre_fs, argVars, local_mode, needcreate, shape, schema,
                   flat_tensors, error, pending, meta_writes, nctor, useVars>>

\* DynamicTensor(...) raising while a field handle is attached.
OpenStorageTensorFail ==
    /\ pc = "open_tensors"
    /\ Len(tensors) < Len(flat_tensors)
    /\ error' = "DynamicTensorError"
    /\ pc' = "failed"
    /\ UNCHANGED <<fs, pre_fs, argVars, local_mode, needcreate, objVars,
                   pending, meta_writes, nctor, useVars>>

\* ---- Create branch, lines 111-125
\* lines 113-114
CreateFeaturify ==
    /\ pc = "featurify"
    /\ schema' = arg_schema
    /\ shape' = arg_shape
    /\ pc' = "write_meta"
    /\ UNCHANGED <<fs, pre_fs, argVars, local_mode, needcreate, flat_tensors,
                   tensors, error, pending, meta_writes, nctor, useVars>>

\* featurify(schema) raising: control goes to the except clause
CreateFeaturifyFail ==
    /\ pc = "featurify"
    /\ pending' = "FeaturifyError"
    /\ pc' = "rollback"
    /\ UNCHANGED <<fs, pre_fs, argVars, local_mode, needcreate, objVars, error,
                   meta_writes, nctor, useVars>>

\* lines 115-120 with the assignment to fs_map["meta.json"] left out
WriteMetaSkipped(f, sh, sc) == f

\* The storage after lines 115-120: meta.json holds shape, schema, version.
WriteMeta(f, sh, sc) ==
    [f EXCEPT !.meta = <<[shape |-> sh, schema |-> Serialize(sc),
                          version |-> 1]>>]

\* lines 115-120
CreateWriteMeta ==
    /\ pc = "write_meta"
    /\ fs' = WriteMeta(fs, arg_shape, schema)
    /\ meta_writes' = meta_writes + 1
    /\ pc' = "create_flatten"
    /\ UNCHANGED <<pre_fs, argVars, local_mode, needcreate, objVars, error,
                   pending, nctor, useVars>>

\* lines 115-120 raising: serialize(self.schema) (line 118) or the
\* assignment to fs_map["meta.json"] (line 120); control goes to the except
\* clause with nothing written.
CreateWriteMetaFail ==
    /\ pc = "write_meta"
    /\ \E exc \in {"SerializeError", "MetaWriteError"} : pending' = exc
    /\ pc' = "rollback"
    /\ UNCHANGED <<fs, pre_fs, argVars, local_mode, needcreate, objVars, error,
                   meta_writes, nctor, useVars>>

\* line 121
CreateFlatten ==
    /\ pc = "create_flatten"
    /\ flat_tensors' = Flatten(schema)
    /\ pc' = IF Flatten(schema) = <<>> THEN "ready" ELSE "create_tensors"
    /\ UNCHANGED <<fs, pre_fs, argVars, local_mode, needcreate, shape, schema,
                   tensors, error, pending, meta_writes, nctor, useVars>>

\* schema._flatten() raising
CreateFlattenFail ==
    /\ pc = "create_flatten"
    /\ pending' = "FlattenError"
    /\ pc' = "rollback"
    /\ UNCHANGED <<fs, pre_fs, argVars, local_mode, needcreate, objVars, error,
                   meta_writes, nctor, useVars>>

\* line 157: fs.makedirs(join(path, "--dynamic--")) for field path p
MakeFieldDirs(f, p) == [f EXCEPT !.dir = TRUE, !.fields = @ \cup {p}]

\* lines 164-165 without the self.shape prefix
CreateHandleFieldShape(t, selfmode, selfshape) ==
    DynamicTensor(t.path, selfmode, t.shape, TRUE, t.max_shape)

\* The handle _generate_storage_tensors yields for t (lines 158-167).
CreateHandle(t, selfmode, selfshape) ==
    DynamicTensor(t.path, selfmode, selfshape \o t.shape, TRUE,
                  selfshape \o t.max_shape)

\* One iteration of _generate_storage_tensors consumed by dict(), line 122.
GenerateStorageTensor ==
    /\ pc = "create_tensors"
    /\ Len(tensors) < Len(flat_tensors)
    /\ LET t == flat_tensors[Len(tensors) + 1]
       IN  /\ fs' = MakeFieldDirs(fs, t.path)
           /\ tensors' = Append(tensors, CreateHandle(t, mode, shape))
    /\ pc' = IF Len(tensors) + 1 = Len(flat_tensors)
             THEN "ready" ELSE "create_tensors"
    /\ UNCHANGED <<pre_fs, argVars, local_mode, needcreate, shape, schema,
                   flat_tensors, error, pending, meta_writes, nctor, useVars>>

\* The same iteration with DynamicTensor(...) raising after line 157.
GenerateStorageTensorFail ==
    /\ pc = "create_tensors"
    /\ Len(tensors) < Len(flat_tensors)
    /\ LET t == flat_tensors[Len(tensors) + 1]
       IN  fs' = MakeFieldDirs(fs, t.path)
    /\ pending' = "DynamicTensorError"
    /\ pc' = "rollback"
    /\ UNCHANGED <<pre_fs, argVars, local_mode, needcreate, objVars, error,
                   meta_writes, nctor, useVars>>

\* The except clause removing only meta.json instead of the tree
RollbackFsMetaOnly(f) == [f EXCEPT !.meta = <<>>]

\* The storage left by the except clause, line 124.
RollbackFs(f) == RmTree(f)

\* lines 123-125: remove the tree, re-raise
Rollback ==
    /\ pc = "rollback"
    /\ fs' = RollbackFs(fs)
    /\ error' = pending
    /\ pc' = "failed"
    /\ UNCHANGED <<pre_fs, argVars, local_mode, needcreate, objVars, pending,
                   meta_writes, nctor, useVars>>

\* --------------------------------------------------------------- selectors
\* The terms of a selector: a path string, a position, a slice(a, b), and
\* None (the default of _get_dictionary's slice_ parameter).
Str(p) == [t |-> "str", s |-> p, a |-> 0, b |-> 0]
Pos(i) == [t |-> "int", s |-> <<>>, a |-> i, b |-> 0]
Slice(x, y) == [t |-> "slice", s |-> <<>>, a |-> x, b |-> y]
None == [t |-> "none", s |-> <<>>, a |-> 0, b |-> 0]

\* Python truth value of a term: None and the integer 0 are false.
Truthy(term) == term.t = "slice" \/ (term.t = "int" /\ term.a # 0)

RECURSIVE SplitPath(_)
\* dataset_utils.slice_split, the path: every string term, "/"-prefixed
\* unless it starts with "/", concatenated.
SplitPath(sel) ==
    IF sel = <<>> THEN <<>>
    ELSE (IF Head(sel).t = "str"
          THEN (IF StartsWith(Head(sel).s, <<SEP>>)
                THEN Head(sel).s ELSE <<SEP>> \o Head(sel).s)
          ELSE <<>>) \o SplitPath(Tail(sel))

\* dataset_utils.slice_split, the list of the position / slice terms
SplitSlices(sel) == SelectSeq(sel, LAMBDA x : x.t # "str")

\* dataset_utils.slice_extract_info(slice_, num): <<num_samples, offset>>
slice_extract_info(term, num) ==
    IF term.t = "int" THEN <<1, term.a>> ELSE <<term.b - term.a, term.a>>

\* The registered field paths, self._tensors.keys(), in insertion order.
Keys(ts) == [i \in 1..Len(ts) |-> ts[i].path]
KeySet(ts) == {ts[i].path : i \in 1..Len(ts)}

\* The views returned by __getitem__. A TensorView keeps its slice_ as a
\* list of terms: a single term is held as a one-element list.
DatasetView(num, ofs) ==
    [kind |-> "DatasetView", num_samples |-> num, offset |-> ofs]
TensorView(p, sl) == [kind |-> "TensorView", subpath |-> p, slice_ |-> sl]
Dict(items) == [kind |-> "dict", items |-> items]
Raise(exc) == [kind |-> "raise", exc |-> exc]

RECURSIVE DictSetOverwrite(_, _, _)
\* lines 297-298 without the membership test: an existing sub-mapping is
\* replaced by a new one.
DictSetOverwrite(d, split_key, view) ==
    LET k == Head(split_key)
        v == IF Len(split_key) = 1 THEN view
             ELSE Dict(DictSetOverwrite(<<>>, Tail(split_key), view))
    IN  [x \in DOMAIN d \cup {k} |-> IF x = k THEN v ELSE d[x]]

RECURSIVE DictSet(_, _, _)
\* lines 295-303: walk split_key from the mapping d, creating the missing
\* sub-mappings, and bind the last segment to the view.
DictSet(d, split_key, view) ==
    LET k == Head(split_key)
        v == IF Len(split_key) = 1 THEN view
             ELSE Dict(DictSet(IF k \in DOMAIN d THEN d[k].items ELSE <<>>,
                               Tail(split_key), view))
    IN  [x \in DOMAIN d \cup {k} |-> IF x = k THEN v ELSE d[x]]

\* line 300: slice_ = slice_ if slice_ else slice(0, self.shape[0])
DictSlice(slice_, n) == IF Truthy(slice_) THEN slice_ ELSE Slice(0, n)

\* line 290 left out: the prefix is used without its closing "/"
DictPrefixNoSep(subpath) == subpath

\* line 290
DictPrefix(subpath) ==
    IF EndsWithSep(subpath) THEN subpath ELSE Append(subpath, SEP)

RECURSIVE DictFold(_, _, _, _, _)
\* lines 291-303: tensor_dict after the loop over self._tensors.keys() has
\* visited keys[1], ..., keys[i]
DictFold(keys, i, prefix, slice_, n) ==
    IF i = 0 THEN <<>>
    ELSE LET tensor_dict == DictFold(keys, i - 1, prefix, slice_, n)
             key == keys[i]
         IN  IF StartsWith(key, prefix)
             THEN DictSet(tensor_dict, Split(Drop(key, Len(prefix))),
                          TensorView(key, <<DictSlice(slice_, n)>>))
             ELSE tensor_dict

\* Dataset._get_dictionary(subpath, slice_)
get_dictionary(ts, n, subpath, slice_) ==
    LET tensor_dict ==
            DictFold(Keys(ts), Len(ts), DictPrefix(subpath), slice_, n)
    IN  IF tensor_dict = <<>> THEN Raise("KeyError") ELSE Dict(tensor_dict)

\* The field view keeping only the first term of slice_list
FieldViewFirstTermOnly(subpath, slice_list, n) ==
    IF slice_list = <<>>
    THEN TensorView(subpath, <<Slice(0, n)>>)
    ELSE TensorView(subpath, <<slice_list[1]>>)

\* lines 206-209 and 213-214: the view of a registered field
FieldView(subpath, slice_list, n) ==
    IF slice_list = <<>>
    THEN TensorView(subpath, <<Slice(0, n)>>)
    ELSE TensorView(subpath, slice_list)

\* __getitem__ without the term-count tests of lines 199 and 215: the
\* first term is used and the others are dropped.
GetItemResultNoTermCount(ts, n, sel) ==
    LET subpath == SplitPath(sel)
        slice_list == SplitSlices(sel)
    IN  IF subpath = <<>>
        THEN IF slice_list = <<>> THEN Raise("IndexError")
             ELSE LET info == slice_extract_info(slice_list[1], n)
                  IN  DatasetView(info[1], info[2])
        ELSE IF slice_list = <<>>
        THEN IF subpath \in KeySet(ts)
             THEN FieldView(subpath, slice_list, n)
             ELSE get_dictionary(ts, n, subpath, None)
        ELSE IF subpath \in KeySet(ts)
             THEN FieldView(subpath, slice_list, n)
             ELSE get_dictionary(ts, n, subpath, slice_list[1])

\* Dataset.__getitem__(slice_) on registry ts with shape[0] = n
GetItemResult(ts, n, sel) ==
    LET subpath == SplitPath(sel)
        slice_list == SplitSlices(sel)
    IN  IF subpath = <<>>
        THEN IF Len(slice_list) > 1 THEN Raise("ValueError")
             ELSE IF slice_list = <<>> THEN Raise("IndexError")
             ELSE LET info == slice_extract_info(slice_list[1], n)
                  IN  DatasetView(info[1], info[2])
        ELSE IF slice_list = <<>>
        THEN IF subpath \in KeySet(ts)
             THEN FieldView(subpath, slice_list, n)
             ELSE get_dictionary(ts, n, subpath, None)
        ELSE IF subpath \in KeySet(ts)
             THEN FieldView(subpath, slice_list, n)
             ELSE IF Len(slice_list) > 1 THEN Raise("ValueError")
             ELSE get_dictionary(ts, n, subpath, slice_list[1])

\* The selectors tried on a dataset of n samples.
PathArgs == {<<"a">>, <<"g">>, <<"a", "b">>, <<"g", SEP, "b">>, <<"b">>}
Terms(n) == {Pos(i) : i \in 0..(n - 1)} \cup {Slice(0, n), Slice(n - 1, n)}
Selectors(n) ==
    {<<Str(p)>> : p \in PathArgs}
        \cup {<<x>> : x \in Terms(n)}
        \cup {<<Str(p), x>> : p \in PathArgs, x \in Terms(n)}
        \cup {<<x, Slice(0, 1)>> : x \in Terms(n)}
        \cup {<<Str(p), x, Slice(0, 1)>> : p \in PathArgs, x \in Terms(n)}

\* ds[sel]: the caller holds the returned view (or the raised exception)
\* together with the selector it passed.
GetItem(sel) ==
    /\ pc = "ready"
    /\ in_with = "no"
    /\ LET r == GetItemResult(tensors, shape[1], sel)
       IN  /\ result' = r @@ [sel |-> sel]
           /\ error' = IF r.kind = "raise" THEN r.exc ELSE "none"
    /\ pc' = "read"
    /\ UNCHANGED <<fs, argVars, objVars, ctorVars, commit_log, in_with,
                   body_err, commit_calls>>

\* The caller drops the view; views own no data and keep no state.
DropView ==
    /\ pc = "read"
    /\ pc' = "ready"
    /\ result' = NoResult
    /\ error' = "none"
    /\ UNCHANGED <<fs, argVars, objVars, ctorVars, commit_log, in_with,
                   body_err, commit_calls>>

\* ------------------------------------------------------------ TorchDataset
\* The names that resolve on a TorchDataset object: the attributes set by
\* __init__ (lines 339-340) and the methods of the class (lines 342-375).
TorchAttrs ==
    {"_ds", "_transform", "_do_transform", "__len__", "__getitem__",
     "__iter__"}

\* torch.tensor(self._ds._tensors[key][index]), line 359: the value of the
\* field key at sample index.
TorchTensor(key, index) == [kind |-> "tensor", path |-> key, index |-> index]

\* lines 352-359: walk split_key[1:-1] from d, creating the missing
\* sub-mappings, and bind split_key[-1] to the value.
TorchSet(d, split_key, value) ==
    IF Len(split_key) = 1
    THEN [x \in DOMAIN d \cup {split_key[1]} |->
             IF x = split_key[1] THEN value ELSE d[x]]
    ELSE DictSet(d, Tail(split_key), value)

RECURSIVE TorchFold(_, _, _)
\* lines 349-359: d after the loop over self._ds._tensors.keys() has visited
\* keys[1], ..., keys[i]
TorchFold(keys, i, index) ==
    IF i = 0 THEN <<>>
    ELSE TorchSet(TorchFold(keys, i - 1, index), Split(keys[i]),
                  TorchTensor(keys[i], index))

\* TorchDataset.__getitem__(index), lines 348-360
TorchGetItemResult(ts, index) == Dict(TorchFold(Keys(ts), Len(ts), index))

\* list(iter(tds)), lines 362-375, on a dataset of n samples: the records
\* yielded and the exception that ended the iteration. self.shape (line
\* 363) and self._tensors (line 373) are looked up on the TorchDataset.
TorchIterResult(ts, n) ==
    IF "shape" \notin TorchAttrs
    THEN [records |-> <<>>, exc |-> "AttributeError"]
    ELSE IF n > 0 /\ ts # <<>> /\ "_tensors" \notin TorchAttrs
    THEN [records |-> <<>>, exc |-> "AttributeError"]
    ELSE [records |-> [i \in 1..n |-> TorchGetItemResult(ts, i - 1)],
          exc |-> "none"]

\* tds = ds.to_pytorch(); tds[index]
TorchGetItem(index) ==
    /\ pc = "ready"
    /\ in_with = "no"
    /\ result' = [kind |-> "record", index |-> index,
                  items |-> TorchGetItemResult(tensors, index).items]
    /\ error' = "none"
    /\ pc' = "read"
    /\ UNCHANGED <<fs, argVars, objVars, ctorVars, commit_log, in_with,
                   body_err, commit_calls>>

\* tds = ds.to_pytorch(); list(tds)
TorchIterate ==
    /\ pc = "ready"
    /\ in_with = "no"
    /\ LET r == TorchIterResult(tensors, shape[1])
       IN  /\ result' = [kind |-> "iter", records |-> r.records,
                         exc |-> r.exc]
           /\ error' = r.exc
    /\ pc' = "read"
    /\ UNCHANGED <<fs, argVars, objVars, ctorVars, commit_log, in_with,
                   body_err, commit_calls>>

\* ------------------------------------------------------------------ writes
\* The term `:` of t[:] = value, slice(None, None).
FullSlice == [t |-> "full", s |-> <<>>, a |-> 0, b |-> 0]

\* DynamicTensor.__setitem__(slice_, value): the handle keeps the range it
\* was given and has changes to flush.
HandleWrite(h, slice_) == [h EXCEPT !.written = slice_, !.flushed = FALSE]

\* self._tensors[subpath][slice_] = value; the exception of the lookup
WriteTo(ts, subpath, slice_) ==
    IF subpath \in KeySet(ts)
    THEN [exc |-> "none",
          tensors |-> [i \in 1..Len(ts) |->
                          IF ts[i].path = subpath
                          THEN HandleWrite(ts[i], slice_) ELSE ts[i]]]
    ELSE [exc |-> "KeyError", tensors |-> ts]

\* __setitem__ assigning to every member of a group prefix
SetItemResultGroupWrite(ts, sel) ==
    LET subpath == SplitPath(sel)
        slice_list == SplitSlices(sel)
        slice_ == IF slice_list = <<>> THEN <<FullSlice>> ELSE slice_list
    IN  IF subpath = <<>>
        THEN [exc |-> "ValueError", tensors |-> ts]
        ELSE IF subpath \in KeySet(ts)
        THEN WriteTo(ts, subpath, slice_)
        ELSE [exc |-> "none",
              tensors |-> [i \in 1..Len(ts) |->
                              IF StartsWith(ts[i].path, DictPrefix(subpath))
                              THEN HandleWrite(ts[i], slice_) ELSE ts[i]]]

\* Dataset.__setitem__(slice_, value) on registry ts: the exception raised
\* and the registry afterwards
SetItemResult(ts, sel) ==
    LET subpath == SplitPath(sel)
        slice_list == SplitSlices(sel)
    IN  IF subpath = <<>>
        THEN [exc |-> "ValueError", tensors |-> ts]
        ELSE IF slice_list = <<>>
        THEN WriteTo(ts, subpath, <<FullSlice>>)
        ELSE WriteTo(ts, subpath, slice_list)

\* The selectors assigned to on a dataset of n samples.
WriteSelectors(n) ==
    {<<Pos(0)>>,
     <<Str(<<"g">>)>>,
     <<Str(<<"a">>)>>,
     <<Str(<<"g", SEP, "b">>), Pos(n - 1)>>,
     <<Str(<<"a", SEP, "b">>), Pos(0), Slice(0, 1)>>}

\* ds[sel] = value
SetItem(sel) ==
    /\ pc = "ready"
    /\ in_with = "no"
    /\ LET r == SetItemResult(tensors, sel)
       IN  /\ tensors' = r.tensors
           /\ error' = r.exc
    /\ result' = [kind |-> "setitem", sel |-> sel]
    /\ pc' = "wrote"
    /\ UNCHANGED <<fs, argVars, shape, schema, flat_tensors, ctorVars,
                   commit_log, in_with, body_err, commit_calls>>

\* The assignment statement is over.
SetItemReturn ==
    /\ pc = "wrote"
    /\ pc' = "ready"
    /\ result' = NoResult
    /\ error' = "none"
    /\ UNCHANGED <<fs, argVars, objVars, ctorVars, commit_log, in_with,
                   body_err, commit_calls>>

\* ------------------------------------------------------------------ commit
\* Dataset.commit is entered (line 317).
CommitCall ==
    /\ pc = "ready"
    /\ in_with = "no"
    /\ pc' = "commit"
    /\ commit_log' = <<>>
    /\ result' = NoResult
    /\ error' = "none"
    /\ UNCHANGED <<fs, argVars, objVars, ctorVars, in_with, body_err,
                   commit_calls>>

\* The loop of line 321 walking the registry backwards
CommitIndexReversed(done) == Len(tensors) - done

\* The index of the handle the loop of line 321 commits after done handles.
CommitIndex(done) == done + 1

\* __exit__ returning a true value, which suppresses the body's exception
ExitReturnTrue == TRUE

\* The value __exit__ returns to the interpreter (None: nothing suppressed).
ExitReturn == FALSE

\* The exception that leaves the with statement once __exit__ has returned.
AfterExit(bodyerr) == IF ExitReturn THEN "none" ELSE bodyerr

\* line 322, t.commit() has returned: the handle records the call. What
\* the call does to the handle's data is the handle's own business.
HandleCommit(h) == [h EXCEPT !.flushed = TRUE]

\* self._tensors after t.commit() has returned for the k-th handle: the
\* loop of lines 321-322 rebinds nothing.
CommitRegistry(ts, k) == [ts EXCEPT ![k] = HandleCommit(ts[k])]

\* lines 321-322, one iteration: t.commit() returns
CommitStep ==
    /\ pc = "commit"
    /\ Len(commit_log) < Len(tensors)
    /\ LET k == CommitIndex(Len(commit_log))
       IN  /\ tensors' = CommitRegistry(tensors, k)
           /\ commit_log' = Append(commit_log, tensors[k].path)
    /\ IF Len(commit_log) + 1 = Len(tensors)
       THEN /\ pc' = "ready"
            /\ in_with' = IF in_with = "exit" THEN "left" ELSE in_with
            /\ error' = IF in_with = "exit" THEN AfterExit(body_err) ELSE error
       ELSE UNCHANGED <<pc, in_with, error>>
    /\ UNCHANGED <<fs, argVars, shape, schema, flat_tensors, ctorVars, result,
                   body_err, commit_calls>>

\* lines 321-322 on an empty registry: the loop body never runs and
\* commit() returns.
CommitNoHandles ==
    /\ pc = "commit"
    /\ Len(tensors) = 0
    /\ pc' = "ready"
    /\ in_with' = IF in_with = "exit" THEN "left" ELSE in_with
    /\ error' = IF in_with = "exit" THEN AfterExit(body_err) ELSE error
    /\ UNCHANGED <<fs, argVars, objVars, ctorVars, result, commit_log,
                   body_err, commit_calls>>

\* lines 321-322, one iteration: t.commit() raises
CommitStepFail ==
    /\ pc = "commit"
    /\ Len(commit_log) < Len(tensors)
    /\ pc' = "ready"
    /\ error' = "CommitError"
    /\ in_with' = IF in_with = "exit" THEN "left" ELSE in_with
    /\ UNCHANGED <<fs, argVars, objVars, ctorVars, result, commit_log,
                   body_err, commit_calls>>

\* -------------------------------------------------------------- with-block
\* Dataset.__enter__ (lines 324-325)
WithEnter ==
    /\ pc = "ready"
    /\ in_with = "no"
    /\ pc' = "with_body"
    /\ in_with' = "body"
    /\ body_err' = "none"
    /\ commit_calls' = 0
    /\ commit_log' = <<>>
    /\ result' = NoResult
    /\ error' = "none"
    /\ UNCHANGED <<fs, argVars, objVars, ctorVars>>

\* The body of the with statement ends normally.
WithBodyReturn ==
    /\ pc = "with_body"
    /\ pc' = "with_exit"
    /\ UNCHANGED <<fs, argVars, objVars, ctorVars, error, useVars>>

\* The body of the with statement raises.
WithBodyRaise ==
    /\ pc = "with_body"
    /\ body_err' = "BodyError"
    /\ pc' = "with_exit"
    /\ UNCHANGED <<fs, argVars, objVars, ctorVars, error, result, commit_log,
                   in_with, commit_calls>>

\* Dataset.__exit__ (lines 327-328) calls self.commit()
WithExit ==
    /\ pc = "with_exit"
    /\ in_with' = "exit"
    /\ commit_calls' = commit_calls + 1
    /\ commit_log' = <<>>
    /\ pc' = "commit"
    /\ UNCHANGED <<fs, argVars, objVars, ctorVars, error, result, body_err>>

\* The caller has handled the outcome of the with statement.
WithLeft ==
    /\ pc = "ready"
    /\ in_with = "left"
    /\ in_with' = "no"
    /\ UNCHANGED <<fs, pc, argVars, objVars, ctorVars, error, result,
                   commit_log, body_err, commit_calls>>

Next ==
    \/ \E m \in Modes, sm \in BOOLEAN, n \in 1..MaxSamples, sc \in Schemas :
          Construct(m, sm, n, sc)
    \/ CheckAndPrepareDir
    \/ SafeMode
    \/ OpenReadMeta
    \/ OpenReadMetaFail
    \/ OpenFlatten
    \/ OpenFlattenFail
    \/ OpenStorageTensor
    \/ OpenStorageTensorFail
    \/ CreateFeaturify
    \/ CreateFeaturifyFail
    \/ CreateWriteMeta
    \/ CreateWriteMetaFail
    \/ CreateFlatten
    \/ CreateFlattenFail
    \/ GenerateStorageTensor
    \/ GenerateStorageTensorFail
    \/ Rollback
    \/ \E sel \in Selectors(IF pc = "ready" THEN shape[1] ELSE 1) : GetItem(sel)
    \/ DropView
    \/ CommitCall
    \/ CommitStep
    \/ CommitNoHandles
    \/ CommitStepFail
    \/ WithEnter
    \/ WithBodyReturn
    \/ WithBodyRaise
    \/ WithExit
    \/ WithLeft

Spec == Init /\ [][Next]_vars

\* The selectors read between writes and commits.
FewSelectors(n) ==
    {<<Pos(0)>>, <<Str(<<"g">>)>>, <<Str(<<"g", SEP, "b">>), Pos(n - 1)>>}

\* Construction, then any sequence of reads, writes and commits.
NextAll ==
    \/ \E m \in Modes, sm \in BOOLEAN, n \in 1..MaxSamples, sc \in Schemas :
          Construct(m, sm, n, sc)
    \/ CheckAndPrepareDir
    \/ SafeMode
    \/ OpenReadMeta
    \/ OpenReadMetaFail
    \/ OpenFlatten
    \/ OpenFlattenFail
    \/ OpenStorageTensor
    \/ OpenStorageTensorFail
    \/ CreateFeaturify
    \/ CreateFeaturifyFail
    \/ CreateWriteMeta
    \/ CreateWriteMetaFail
    \/ CreateFlatten
    \/ CreateFlattenFail
    \/ GenerateStorageTensor
    \/ GenerateStorageTensorFail
    \/ Rollback
    \/ \E sel \in FewSelectors(IF pc = "ready" THEN shape[1] ELSE 1) :
          GetItem(sel)
    \/ DropView
    \/ \E sel \in WriteSelectors(IF pc = "ready" THEN shape[1] ELSE 1) :
          SetItem(sel)
    \/ SetItemReturn
    \/ CommitCall
    \/ CommitStep
    \/ CommitNoHandles
    \/ CommitStepFail

SpecAll == Init /\ [][NextAll]_vars

\* Construction over the schemas with nested groups, then reads.
NextGroups ==
    \/ \E m \in Modes, sm \in BOOLEAN, n \in 1..MaxSamples,
          sc \in GroupSchemas : Construct(m, sm, n, sc)
    \/ CheckAndPrepareDir
    \/ SafeMode
    \/ OpenReadMeta
    \/ OpenReadMetaFail
    \/ OpenFlatten
    \/ OpenFlattenFail
    \/ OpenStorageTensor
    \/ OpenStorageTensorFail
    \/ CreateFeaturify
    \/ CreateFeaturifyFail
    \/ CreateWriteMeta
    \/ CreateWriteMetaFail
    \/ CreateFlatten
    \/ CreateFlattenFail
    \/ GenerateStorageTensor
    \/ GenerateStorageTensorFail
    \/ Rollback
    \/ \E sel \in Selectors(IF pc = "ready" THEN shape[1] ELSE 1) : GetItem(sel)
    \/ DropView

SpecGroups == Init /\ [][NextGroups]_vars

\* Construction, then the TorchDataset wrapper's lookups and iteration.
NextTorch ==
    \/ \E m \in Modes, sm \in BOOLEAN, n \in 1..MaxSamples,
          sc \in GroupSchemas : Construct(m, sm, n, sc)
    \/ CheckAndPrepareDir
    \/ SafeMode
    \/ OpenReadMeta
    \/ OpenReadMetaFail
    \/ OpenFlatten
    \/ OpenFlattenFail
    \/ OpenStorageTensor
    \/ OpenStorageTensorFail
    \/ CreateFeaturify
    \/ CreateFeaturifyFail
    \/ CreateWriteMeta
    \/ CreateWriteMetaFail
    \/ CreateFlatten
    \/ CreateFlattenFail
    \/ GenerateStorageTensor
    \/ GenerateStorageTensorFail
    \/ Rollback
    \/ \E index \in 0..(IF pc = "ready" THEN shape[1] - 1 ELSE 0) :
           TorchGetItem(index)
    \/ TorchIterate
    \/ DropView

SpecTorch == Init /\ [][NextTorch]_vars

\* ================================================================== claims
CheckErrors == {"HubDatasetNotFoundException",
                "NotHubDatasetToOverwriteException",
                "NotHubDatasetToAppendException"}
CreateErrors ==
    {"FeaturifyError", "SerializeError", "MetaWriteError", "FlattenError",
     "DynamicTensorError"}

\* The constructor has got past _check_and_prepare_dir.
Checked == nctor > 0 /\ pc \notin {"idle", "check"}

\* What the current construction resolved to.
Resolved ==
    IF error \in CheckErrors THEN error
    ELSE IF needcreate THEN "Create" ELSE "Open"

\* The state of the url when the constructor was entered.
PreMeta == pre_fs.meta # <<>>
PreAbsent == ~pre_fs.dir
PreEmpty ==
    pre_fs.dir /\ ~pre_fs.stray /\ pre_fs.fields = {} /\ pre_fs.meta = <<>>
PreNonempty == pre_fs.dir /\ ~PreEmpty

\* C1: construction resolves as the lifecycle table says, for every
\* (metadata present or absent, directory absent / empty / nonempty, mode):
\* metadata and Write -> the tree is destroyed and an empty directory
\* recreated, Create; metadata and no Write -> Open, storage untouched; no
\* metadata and Read -> DatasetNotFound; no metadata, not Read, directory
\* absent or empty -> Create on an (existing) empty directory; no metadata,
\* nonempty, Write -> NotDatasetToOverwrite; Append -> NotDatasetToAppend.
C1_LifecycleTable ==
    (Checked /\ mode \in AccessModes) =>
        /\ (PreMeta /\ mode = <<"w">>) =>
               Resolved = "Create" /\ (pc = "safe" => fs = EmptyDir)
        /\ (PreMeta /\ mode # <<"w">>) =>
               Resolved = "Open" /\ (pc = "safe" => fs = pre_fs)
        /\ (~PreMeta /\ mode = <<"r">>) =>
               Resolved = "HubDatasetNotFoundException" /\ pc = "failed"
        /\ (~PreMeta /\ mode # <<"r">> /\ (PreAbsent \/ PreEmpty)) =>
               Resolved = "Create" /\ (pc = "safe" => fs = EmptyDir)
        /\ (~PreMeta /\ PreNonempty /\ mode = <<"w">>) =>
               Resolved = "NotHubDatasetToOverwriteException" /\ pc = "failed"
        /\ (~PreMeta /\ PreNonempty /\ mode = <<"a">>) =>
               Resolved = "NotHubDatasetToAppendException" /\ pc = "failed"

\* An existing dataset was just overwritten by a Write-mode construction.
C1_Witness ==
    pc = "safe" /\ PreMeta /\ pre_fs.fields # {} /\ mode = <<"w">> /\ needcreate

\* C2 (as claimed): whenever safe_mode is set and construction resolves to
\* Open, the mode held by the dataset and the mode of every field handle
\* attached during that Open are Read, whatever mode was requested.
C2_SafeOpenIsRead ==
    (Checked /\ pc # "safe" /\ safe_mode /\ Resolved = "Open") =>
        /\ mode = <<"r">>
        /\ \A i \in 1..Len(tensors) : tensors[i].mode = <<"r">>

\* C3 (as claimed): with safe_mode set, constructing on a url that holds a
\* dataset never rewrites it, for every requested mode: the metadata record
\* and the field stores are still there, unchanged, and the dataset is
\* opened (read-only) instead of created anew.
C3_SafeNeverRewrites ==
    (Checked /\ safe_mode /\ PreMeta) =>
        /\ fs.meta = pre_fs.meta
        /\ fs.fields = pre_fs.fields
        /\ Resolved = "Open"
        /\ (pc # "safe" => mode = <<"r">>)

\* C4: when a Create fails in featurify, in _flatten or in the construction
\* of the k-th field store, the error that reaches the caller is the
\* original one and the whole tree is gone: no directory, no metadata
\* record, no field namespace.
C4_FailedCreateRollsBack ==
    (pc = "failed" /\ needcreate) =>
        /\ ~fs.dir
        /\ fs.meta = <<>>
        /\ fs.fields = {}
        /\ error \in CreateErrors
        /\ error = pending

\* The second field store failed after the first was built, and the error
\* has reached the caller.
C4_Witness ==
    /\ pc = "failed"
    /\ needcreate
    /\ error = "DynamicTensorError"
    /\ Len(tensors) = 1
    /\ Len(flat_tensors) > 1

\* C5 (as claimed): during a Create the metadata record is written only at
\* the end: it never exists in storage while some field store of the
\* dataset has not been constructed yet.
C5_MetaOnlyAtEnd ==
    (Checked /\ needcreate /\ fs.meta # <<>>) =>
        /\ flat_tensors = Flatten(schema)
        /\ Len(tensors) = Len(flat_tensors)

\* C5 (amended): during a Create the metadata record is written exactly
\* once, after featurify and before _flatten and every field-store
\* construction; it is in storage while the field stores are constructed,
\* it holds the shape and the serialized schema, and a failure of a later
\* step removes it, so that once the constructor has returned the record
\* exists only if every field store has been constructed.
C5_MetaWrittenOnceBeforeStores ==
    (Checked /\ needcreate) =>
        /\ meta_writes <= 1
        /\ pc \in {"safe", "featurify", "write_meta"} =>
               meta_writes = 0 /\ fs.meta = <<>> /\ tensors = <<>>
        /\ pc \in {"create_flatten", "create_tensors"} =>
               /\ meta_writes = 1
               /\ fs.meta = <<[shape |-> arg_shape,
                               schema |-> Serialize(schema),
                               version |-> 1]>>
        /\ (tensors # <<>> /\ pc # "failed") => fs.meta # <<>>
        /\ pc = "failed" => fs.meta = <<>>
        /\ pc \in {"ready", "read", "commit", "with_body", "with_exit"} =>
               /\ meta_writes = 1
               /\ fs.meta # <<>>
               /\ Len(tensors) = Len(Flatten(schema))

\* The metadata record is in storage while the second field store is still
\* to be constructed.
C5_Witness ==
    /\ pc = "create_tensors"
    /\ needcreate
    /\ fs.meta # <<>>
    /\ Len(tensors) = 1
    /\ Len(flat_tensors) > 1

\* C6: a construction that does not resolve to Create and fails (with
\* DatasetNotFound, NotDatasetToOverwrite or NotDatasetToAppend, or while
\* reading the metadata or attaching a field handle during Open) leaves the
\* directory, the metadata record and every field store as they were.
C6_FailedOpenLeavesStorage ==
    (pc = "failed" /\ ~needcreate) => fs = pre_fs

\* Attaching the second field handle of an existing dataset failed.
C6_Witness ==
    /\ pc = "failed"
    /\ ~needcreate
    /\ error = "DynamicTensorError"
    /\ Len(tensors) = 1
    /\ fs.meta # <<>>
    /\ fs.fields # {}

\* C7: commit() commits the handles one at a time in registry order; when
\* the commit of the k-th handle fails the error propagates at once, the
\* handles 1..k-1 stay committed and the handles k..n are not committed by
\* that call.
C7_CommitSequential ==
    (pc \in {"commit", "ready"} /\ Len(commit_log) <= Len(tensors)) =>
        /\ commit_log = SubSeq(Keys(tensors), 1, Len(commit_log))
        /\ \A i \in 1..Len(commit_log) : tensors[i].flushed
        /\ error = "CommitError" =>
               /\ pc = "ready"
               /\ Len(commit_log) < Len(tensors)
               /\ \A i \in (Len(commit_log) + 1)..Len(tensors) :
                      tensors[i].path \notin
                          {commit_log[j] : j \in 1..Len(commit_log)}

\* The commit of the second handle failed after the first was committed;
\* the handles from the second on were never flushed.
C7_Witness ==
    /\ pc = "ready"
    /\ error = "CommitError"
    /\ Len(commit_log) = 1
    /\ tensors[1].flushed
    /\ \A i \in 2..Len(tensors) : ~tensors[i].flushed

\* C8 (as claimed): leaving the with-block calls commit() exactly once on
\* every exit path and the error raised by the body always reaches the
\* caller after the exit.
C8_BodyErrorAlwaysReachesCaller ==
    in_with = "left" =>
        /\ commit_calls = 1
        /\ body_err # "none" => error = body_err

\* C8 (amended): leaving the with-block calls commit() exactly once on
\* every exit path; __exit__ itself suppresses nothing, so when that
\* commit() completes the caller gets the body's error (or none if the
\* body raised none); when that commit() fails, the commit error is the one
\* that reaches the caller, also while an error of the body is propagating.
C8_ExitCommitsOnce ==
    /\ in_with = "exit" => commit_calls = 1
    /\ in_with = "left" =>
           /\ commit_calls = 1
           /\ error = IF Len(commit_log) < Len(tensors)
                      THEN "CommitError" ELSE body_err

\* The body raised, commit() ran to the end and the body's error reached
\* the caller.
C8_Witness ==
    /\ in_with = "left"
    /\ body_err = "BodyError"
    /\ error = "BodyError"
    /\ Len(commit_log) = Len(tensors)

RECURSIVE Leaves(_)
\* The field views at the leaves of a grouped dictionary.
Leaves(node) ==
    IF node.kind = "TensorView" THEN {node}
    ELSE UNION {Leaves(node.items[k]) : k \in DOMAIN node.items}

\* C9 (as claimed): ds[subpath, t] with a group prefix and exactly one term
\* t returns a dictionary whose every member view is bound to exactly t on
\* the sample dimension, for every t, position 0 included.
C9_GroupBoundToTerm ==
    (pc = "read" /\ result.kind = "dict" /\ Len(result.sel) = 2) =>
        \A v \in Leaves(result) : v.slice_ = <<result.sel[2]>>

\* C10: the view kind follows from (subpath, terms): one term and no
\* subpath -> a dataset view of the range slice_extract_info resolves
\* against shape[0]; a registered field path and no terms -> the field's
\* view over slice(0, shape[0]); a registered field path with terms -> the
\* field's view carrying all the terms in the given order (the first for
\* the sample dimension); an exact field match is never a dictionary.
C10_ViewKind ==
    pc = "read" =>
        LET sel == result.sel
            p == <<SEP>> \o sel[1].s
        IN  /\ (Len(sel) = 1 /\ sel[1].t # "str") =>
                   /\ result.kind = "DatasetView"
                   /\ result.num_samples =
                          (IF sel[1].t = "int" THEN 1 ELSE sel[1].b - sel[1].a)
                   /\ result.offset = sel[1].a
                   /\ result.offset + result.num_samples <= shape[1]
            /\ (sel[1].t = "str" /\ p \in KeySet(tensors)) =>
                   /\ result.kind = "TensorView"
                   /\ result.subpath = p
                   /\ result.slice_ =
                          (IF Len(sel) = 1 THEN <<Slice(0, shape[1])>>
                           ELSE Tail(sel))

\* A registered field was read with two terms.
C10_Witness ==
    /\ pc = "read"
    /\ result.kind = "TensorView"
    /\ Len(result.sel) = 3
    /\ result.subpath = <<SEP, "g", SEP, "b">>

\* C11: a read with more than one range term fails with ValueError (the
\* InvalidSelector of the design) unless its subpath is a registered field
\* path: with no subpath, and with a subpath that is no registered field,
\* group prefix or not; no view is returned and the storage, the registry,
\* the shape and the schema are unchanged.
C11_MultiTermNeedsLeaf ==
    [][(/\ pc = "ready"
        /\ pc' = "read"
        /\ Len(SplitSlices(result'.sel)) > 1
        /\ SplitPath(result'.sel) \notin KeySet(tensors))
       => (/\ result'.kind = "raise"
           /\ result'.exc = "ValueError"
           /\ error' = "ValueError"
           /\ UNCHANGED <<fs, objVars>>)]_vars

\* ds["g", t, 0:1] on a dataset where "/g" is a group prefix was refused.
C11_Witness ==
    /\ pc = "read"
    /\ Len(result.sel) = 3
    /\ result.sel[1].s = <<"g">>
    /\ <<SEP, "g", SEP, "a">> \in KeySet(tensors)
    /\ result.kind = "raise"
    /\ result.exc = "ValueError"

\* C12: an assignment that names no registered leaf field fails and writes
\* nothing: with no subpath it raises ValueError, with a subpath that is
\* not a registered path (a group prefix included) the lookup raises, and
\* no handle is written. An assignment to a registered leaf writes that
\* handle only: the range `:` when there are no terms, else the terms.
C12_WriteNeedsLeaf ==
    [][(pc = "ready" /\ pc' = "wrote")
       => LET sel == result'.sel
              subpath == SplitPath(sel)
              terms == SplitSlices(sel)
          IN  /\ UNCHANGED <<fs, shape, schema, flat_tensors>>
              /\ subpath = <<>> =>
                     error' = "ValueError" /\ tensors' = tensors
              /\ (subpath # <<>> /\ subpath \notin KeySet(tensors)) =>
                     error' # "none" /\ tensors' = tensors
              /\ subpath \in KeySet(tensors) =>
                     /\ error' = "none"
                     /\ Len(tensors') = Len(tensors)
                     /\ \A i \in 1..Len(tensors) :
                            IF tensors[i].path = subpath
                            THEN /\ tensors'[i].path = subpath
                                 /\ tensors'[i].written =
                                        (IF terms = <<>> THEN <<FullSlice>>
                                         ELSE terms)
                            ELSE tensors'[i] = tensors[i]]_vars

\* ds["g"] = value, "/g" being a group prefix, failed and wrote nothing.
C12_Witness ==
    /\ pc = "wrote"
    /\ result.sel = <<Str(<<"g">>)>>
    /\ <<SEP, "g", SEP, "a">> \in KeySet(tensors)
    /\ error = "KeyError"
    /\ \A i \in 1..Len(tensors) : tensors[i].written = <<>>

\* The read was resolved as a grouped dictionary: a subpath that is no
\* registered field, with at most one term.
GroupRead ==
    /\ pc = "read"
    /\ SplitPath(result.sel) # <<>>
    /\ SplitPath(result.sel) \notin KeySet(tensors)
    /\ Len(SplitSlices(result.sel)) <= 1

\* The registered paths that have the segments of subpath as leading
\* segments, followed by at least one more segment.
Members(subpath) ==
    {k \in KeySet(tensors) :
        /\ Len(Split(k)) > Len(Split(subpath))
        /\ SubSeq(Split(k), 1, Len(Split(subpath))) = Split(subpath)}

\* C13: grouped-dictionary resolution collects exactly the registered
\* fields whose path has the prefix as complete leading segments: the leaves
\* of the mapping correspond one to one to those fields, a prefix that is
\* only part of a segment matches nothing, and KeyError is raised if and
\* only if no registered field matches.
C13_GroupMembers ==
    GroupRead =>
        LET M == Members(SplitPath(result.sel))
        IN  /\ (result.kind = "raise") <=> (M = {})
            /\ result.kind = "raise" => result.exc = "KeyError"
            /\ M # {} =>
                   /\ result.kind = "dict"
                   /\ {v.subpath : v \in Leaves(result)} = M
                   /\ Cardinality(Leaves(result)) = Cardinality(M)

\* ds["a"] with fields "/ab" and "/a/b": only "/a/b" is a member.
C13_Witness ==
    /\ GroupRead
    /\ result.sel = <<Str(<<"a">>)>>
    /\ <<SEP, "a", "b">> \in KeySet(tensors)
    /\ result.kind = "dict"
    /\ {v.subpath : v \in Leaves(result)} = {<<SEP, "a", SEP, "b">>}

\* The registry in every order.
Orders(ts) ==
    {[i \in 1..Len(ts) |-> ts[f[i]]] :
        f \in {g \in [1..Len(ts) -> 1..Len(ts)] :
                  \A i, j \in 1..Len(ts) : g[i] = g[j] => i = j}}

RECURSIVE At(_, _)
\* The node of a nested mapping reached by following the keys segs.
At(node, segs) ==
    IF segs = <<>> THEN node
    ELSE IF node.kind = "dict" /\ Head(segs) \in DOMAIN node.items
         THEN At(node.items[Head(segs)], Tail(segs))
         ELSE Raise("KeyError")

\* C14: the nested mapping of a grouped-dictionary resolution does not
\* depend on the registration order: every permutation of the registry
\* yields the mapping that was returned, and each member field sits under
\* exactly the group names that lie between the prefix and the field.
C14_OrderIndependent ==
    (GroupRead /\ result.kind = "dict") =>
        LET subpath == SplitPath(result.sel)
            terms == SplitSlices(result.sel)
            slice_ == IF terms = <<>> THEN None ELSE terms[1]
        IN  /\ \A ts \in Orders(tensors) :
                   get_dictionary(ts, shape[1], subpath, slice_)
                       = Dict(result.items)
            /\ \A k \in Members(subpath) :
                   LET v == At(Dict(result.items),
                               Drop(Split(k), Len(Split(subpath))))
                   IN  v.kind = "TensorView" /\ v.subpath = k

\* ds["g"] with fields "/g/h/a", "/g/h/b", "/g/c": two fields share the
\* sub-mapping "h", one level below the prefix.
C14_Witness ==
    /\ GroupRead
    /\ result.kind = "dict"
    /\ result.sel = <<Str(<<"g">>)>>
    /\ DOMAIN result.items = {<<"h">>, <<"c">>}
    /\ DOMAIN result.items[<<"h">>].items = {<<"a">>, <<"b">>}

\* The constructor has returned normally and the object is in use.
Constructed == pc \in {"ready", "read", "wrote", "commit"}

\* C15: once a construction has succeeded, and through every later read,
\* write and commit, the registry's keys are the paths of the flattened
\* descriptors of the schema, and every handle was built with a shape whose
\* first dimension is the dataset's sample count.
C15_RegistryMatchesDescriptors ==
    Constructed =>
        /\ flat_tensors = Flatten(schema)
        /\ KeySet(tensors) = {flat_tensors[i].path : i \in DOMAIN flat_tensors}
        /\ \A i \in DOMAIN tensors :
               /\ Len(tensors[i].shape) >= 1
               /\ tensors[i].shape[1] = shape[1]

\* A dataset that has been written to and committed, back in use.
C15_Witness ==
    /\ pc = "ready"
    /\ Len(tensors) = 3
    /\ Len(commit_log) = Len(tensors)
    /\ \E i \in DOMAIN tensors :
           tensors[i].written # <<>> /\ tensors[i].flushed

\* The constructor is building the registry or has returned normally.
Attaching == Constructed \/ pc \in {"open_tensors", "create_tensors"}

\* On Create the i-th handle got the combined shape and max-shape, and its
\* namespace was made before it.
CreateArgs(i) ==
    /\ tensors[i].shape = shape \o flat_tensors[i].shape
    /\ tensors[i].has_max
    /\ tensors[i].max_shape = shape \o flat_tensors[i].max_shape
    /\ tensors[i].path \in fs.fields

\* C18 as claimed: on Open every handle is built with the dataset's shape
\* alone and no max-shape, dtype or chunks; on Create with the combined
\* shape and max-shape, its namespace existing.
C18_OpenGetsSampleShapeOnly ==
    Attaching =>
        \A i \in DOMAIN tensors :
            IF needcreate
            THEN CreateArgs(i)
            ELSE tensors[i].shape = shape /\ ~tensors[i].has_max

\* C18 (amended): on Open every handle is built with the dataset's shape
\* followed by the descriptor's shape, and no max-shape, dtype or chunks;
\* on Create with the combined shape and max-shape, its namespace existing.
C18_HandleArguments ==
    Attaching =>
        \A i \in DOMAIN tensors :
            IF needcreate
            THEN CreateArgs(i)
            ELSE /\ tensors[i].shape = shape \o flat_tensors[i].shape
                 /\ ~tensors[i].has_max

\* An opened dataset of 2 samples whose field "/g/b" of shape (2,) has a
\* handle built with shape (2, 2).
C18_Witness ==
    /\ pc = "ready"
    /\ ~needcreate
    /\ shape = <<2>>
    /\ \E i \in DOMAIN tensors :
           /\ tensors[i].path = <<SEP, "g", SEP, "b">>
           /\ tensors[i].shape = <<2, 2>>
           /\ ~tensors[i].has_max
RECURSIVE Nesting(_)
\* The keys of a nested record, with each leaf replaced by its field path.
Nesting(node) ==
    IF node.kind = "dict"
    THEN [k \in DOMAIN node.items |-> Nesting(node.items[k])]
    ELSE IF node.kind = "TensorView" THEN node.subpath
    ELSE node.path

\* C19 (as claimed): iterating the TorchDataset of a dataset of N samples
\* yields N records, the i-th equal to TorchDataset.__getitem__(i), and a
\* record is nested as the grouped dictionary over the empty prefix is.
C19_IterMatchesGetItem ==
    /\ (pc = "read" /\ result.kind = "iter") =>
           /\ result.exc = "none"
           /\ Len(result.records) = shape[1]
           /\ \A i \in 1..Len(result.records) :
                  result.records[i] = TorchGetItemResult(tensors, i - 1)
    /\ (pc = "read" /\ result.kind = "record") =>
           Nesting(Dict(result.items))
               = Nesting(get_dictionary(tensors, shape[1], <<>>, None))
====
